---- MODULE Spec2Model ----
(***************************************************************************)
(* Slite MCP server: the protocol adapter (src/src/index.ts, the           *)
(* McpServer variant src/src/stdio-server.ts) and the Remote Client        *)
(* SliteApiClient (src/src/index.ts:400-555).                              *)
(*                                                                         *)
(* JavaScript values are modelled as follows.                              *)
(*  - an object is a function whose DOMAIN is the set of its own keys; a   *)
(*    key that is absent reads as undefined;                               *)
(*  - a string built by a template literal is the sequence of its          *)
(*    fragments (the literal pieces and the interpolated values), so that  *)
(*    "begins with" and "contains" are positions in the sequence;          *)
(*  - an array is a sequence;                                              *)
(*  - a function call that may throw yields Return(v) or Throw(e).         *)
(***************************************************************************)
EXTENDS Integers, Sequences, FiniteSets, TLC

VARIABLES variant, calls

vars == <<variant, calls>>

(***************************************************************************)
(* Bounds of the model.                                                    *)
(***************************************************************************)
MaxInFlight == 2   \* call slots of the host connection
MaxTail == 4       \* characters of a resource URI after its scheme://host part
MaxAttrs == 1      \* length of an attributes array

Slots == 1..MaxInFlight

(***************************************************************************)
(* JavaScript helpers.                                                     *)
(***************************************************************************)
Restrict(obj, keys) == [k \in (DOMAIN obj) \cap keys |-> obj[k]]

Has(obj, k) == k \in DOMAIN obj

\* truthiness of a string-valued property: undefined and "" are falsy
TruthyStr(obj, k) == Has(obj, k) /\ obj[k] # ""

\* truthiness of an array-valued property: undefined is falsy, every array
\* (the empty one included) is truthy
TruthyArr(obj, k) == Has(obj, k)

Return(v) == [thrown |-> FALSE, value |-> v]

Throw(e) == [thrown |-> TRUE, error |-> e]

\* new Error(message)
Error(msg) == [type |-> "Error", message |-> msg]

\* new McpError(code, message)
McpError(code, msg) == [type |-> "McpError", code |-> code, message |-> msg]

\* the outcome of one axios request
HttpOk(data) == [ok |-> TRUE, data |-> data]

HttpFailed(cause) == [ok |-> FALSE, cause |-> cause]

RECURSIVE JoinLines(_, _)
\* items.map(f).join('\n'), f given as the sequence of already formatted items
JoinLines(lines, i) ==
  IF i > Len(lines) THEN <<>>
  ELSE lines[i] \o (IF i < Len(lines) THEN <<"\n">> ELSE <<>>) \o JoinLines(lines, i + 1)

\* the keys JSON.stringify visits, in the order the remote service sends them
JSONKeyOrder == <<"id", "title", "markdown", "status", "name">>

RECURSIVE JSONMembers(_, _, _)
JSONMembers(obj, i, first) ==
  IF i > Len(JSONKeyOrder) THEN <<>>
  ELSE IF Has(obj, JSONKeyOrder[i])
       THEN (IF first THEN <<>> ELSE <<",">>)
            \o <<"\n  \"", JSONKeyOrder[i], "\": \"", obj[JSONKeyOrder[i]], "\"">>
            \o JSONMembers(obj, i + 1, FALSE)
       ELSE JSONMembers(obj, i + 1, first)

\* JSON.stringify(obj, null, 2) of a flat object with string members
JSONStringify(obj) == <<"{">> \o JSONMembers(obj, 1, TRUE) \o <<"\n}">>

(***************************************************************************)
(* Remote Client: SliteApiClient.  Each method is split at its await: the  *)
(* request it issues, and what it returns or throws once axios settles.    *)
(***************************************************************************)
\* noteId is the sequence of characters captured from the resource URI
getNoteRequest(noteId) ==
  [method |-> "GET", url |-> <<"/notes/">> \o noteId \o <<"?format=", "md">>]

getNote(noteId, reply) ==
  IF reply.ok THEN Return(reply.data)
  ELSE Throw(Error(<<"Failed to fetch note ">> \o noteId \o <<": ", reply.cause>>))

\* createNotePayload copying every parameter that is not undefined
createNotePayloadDefined(p) ==
  [title |-> p.title, markdown |-> p.markdown]
    @@ (IF Has(p, "parentNoteId") THEN [parentNoteId |-> p.parentNoteId] ELSE <<>>)
    @@ (IF Has(p, "templateId") THEN [templateId |-> p.templateId] ELSE <<>>)
    @@ (IF Has(p, "attributes") THEN [attributes |-> p.attributes] ELSE <<>>)

\* the payload createNote builds from its parameters (p holds the parameters
\* that are not undefined)
createNotePayload(p) ==
  [title |-> p.title, markdown |-> p.markdown]
    @@ (IF TruthyStr(p, "parentNoteId") THEN [parentNoteId |-> p.parentNoteId] ELSE <<>>)
    @@ (IF TruthyStr(p, "templateId") THEN [templateId |-> p.templateId] ELSE <<>>)
    @@ (IF Has(p, "attributes") /\ Len(p.attributes) > 0
        THEN [attributes |-> p.attributes] ELSE <<>>)

createNoteRequest(p) ==
  [method |-> "POST", url |-> <<"/notes">>, data |-> createNotePayload(p)]

createNote(reply) ==
  IF reply.ok THEN Return(reply.data)
  ELSE Throw(Error(<<"Failed to create note: ", reply.cause>>))

updateNoteRequest(noteId, updates) ==
  [method |-> "PUT", url |-> <<"/notes/", noteId>>, data |-> updates]

updateNote(noteId, reply) ==
  IF reply.ok THEN Return(reply.data)
  ELSE Throw(Error(<<"Failed to update note ", noteId, ": ", reply.cause>>))

searchNotesRequest(query, limit) ==
  [method |-> "GET", url |-> <<"/search-notes">>, params |-> [q |-> query, limit |-> limit]]

searchNotes(query, reply) ==
  IF reply.ok
  THEN Return(IF Has(reply.data, "results") THEN reply.data.results ELSE <<>>)
  ELSE Throw(Error(<<"Failed to search for \"", query, "\": ", reply.cause>>))

getAskInfoRequest == [method |-> "GET", url |-> <<"/ask">>]

getAskInfo(reply) ==
  IF reply.ok THEN Return(reply.data)
  ELSE Throw(Error(<<"Failed to fetch Ask info: ", reply.cause>>))

getAskIndexRequest == [method |-> "GET", url |-> <<"/ask/index">>]

getAskIndex(reply) ==
  IF reply.ok THEN Return(reply.data)
  ELSE Throw(Error(<<"Failed to fetch Ask index: ", reply.cause>>))

getAutomationAssistantRequest(assistantId) ==
  [method |-> "GET", url |-> <<"/super/automation/", assistantId>>]

getAutomationAssistant(assistantId, reply) ==
  IF reply.ok THEN Return(reply.data)
  ELSE Throw(Error(<<"Failed to fetch automation assistant ", assistantId, ": ", reply.cause>>))

(***************************************************************************)
(* Protocol Adapter, index.ts: resources.                                  *)
(***************************************************************************)
UriPrefix == "slite://notes"

\* UriGroup for a pattern whose segment is [^/]+ followed by anything
UriGroupUnanchored(uri) ==
  /\ Len(uri) >= 3
  /\ uri[2] = "/"
  /\ uri[3] # "/"

\* uri.match(/^slite:\/\/notes(?:\/([^/]+))?$/) on a URI given as its leading
\* scheme://host token followed by single characters.  The optional group is
\* "/" and one or more characters other than "/", and must end the string.
UriGroup(uri) ==
  /\ Len(uri) >= 3
  /\ uri[2] = "/"
  /\ \A i \in 3..Len(uri) : uri[i] # "/"

UriMatch(uri) ==
  IF uri[1] = UriPrefix /\ (Len(uri) = 1 \/ UriGroup(uri))
  THEN [matched |-> TRUE,
        noteId |-> IF UriGroup(uri) THEN SubSeq(uri, 3, Len(uri)) ELSE <<>>]
  ELSE [matched |-> FALSE, noteId |-> <<>>]

\* one element of contents
ResourceContent(uri, title, text) == [uri |-> uri, title |-> title, text |-> text]

\* NoteText with ?? in place of ||
NoteTextNullish(note) ==
  IF Has(note, "markdown") THEN <<note.markdown>> ELSE JSONStringify(note)

\* note.markdown || JSON.stringify(note, null, 2)
NoteText(note) ==
  IF TruthyStr(note, "markdown") THEN <<note.markdown>> ELSE JSONStringify(note)

AllNotesText ==
  <<"This would list all notes from Slite. In a real implementation, you would fetch all notes from the Slite API.">>

\* the handler up to its first await: either it awaits a remote request or it
\* settles at once
Await(request) == [await |-> TRUE, request |-> request]

Settle(outcome) == [await |-> FALSE, outcome |-> outcome]

ReadResourceStart(uri) ==
  LET match == UriMatch(uri) IN
  IF ~match.matched
  THEN Settle(Throw(McpError("InvalidRequest", <<"Invalid URI format: ">> \o uri)))
  ELSE IF match.noteId # <<>>
       THEN Await(getNoteRequest(match.noteId))
       ELSE Settle(Return([contents |-> <<ResourceContent(uri, "All Notes", AllNotesText)>>]))

\* ReadResourceResume answering a failed getNote with text
ReadResourceResumeAbsorbing(uri, reply) ==
  LET note == getNote(UriMatch(uri).noteId, reply) IN
  IF note.thrown
  THEN Return([contents |-> <<ResourceContent(uri, "Error",
                  <<"Failed to fetch note information: ">> \o note.error.message)>>])
  ELSE Return([contents |-> <<ResourceContent(uri, note.value.title, NoteText(note.value))>>])

\* the handler from the await of getNote to its end
ReadResourceResume(uri, reply) ==
  LET note == getNote(UriMatch(uri).noteId, reply) IN
  IF note.thrown
  THEN Throw(McpError("InternalError",
                      <<"Failed to fetch note information: ">> \o note.error.message))
  ELSE Return([contents |-> <<ResourceContent(uri, note.value.title, NoteText(note.value))>>])

(***************************************************************************)
(* Protocol Adapter, index.ts: tools.                                      *)
(***************************************************************************)
\* the names of the tools array of the ListTools handler, in source order
ListTools ==
  <<"search-notes", "create-note", "update-note",
    "get-ask-info", "get-ask-index", "get-automation-assistant">>

\* SwitchCases without the case of get-ask-index
SwitchCasesWithoutAskIndex ==
  <<"search-notes", "create-note", "update-note",
    "get-ask-info", "get-automation-assistant">>

\* the case labels of the switch of the CallTool handler, in source order
SwitchCases ==
  <<"search-notes", "create-note", "update-note",
    "get-ask-info", "get-ask-index", "get-automation-assistant">>

\* switch (name): the first case whose label equals name, 0 for default
DispatchBranch(name) ==
  IF \E i \in 1..Len(SwitchCases) : SwitchCases[i] = name
  THEN CHOOSE i \in 1..Len(SwitchCases) :
         /\ SwitchCases[i] = name
         /\ \A j \in 1..(i - 1) : SwitchCases[j] # name
  ELSE 0

TextBlock(text) == [type |-> "text", text |-> text]

\* a tool result that carries no isError key
TextResult(text) == [content |-> <<TextBlock(text)>>]

\* a tool result with isError: true
ErrorResult(text) == [content |-> <<TextBlock(text)>>, isError |-> TRUE]

\* `- ${item.title}: ${item.snippet || 'No snippet available'} (${item.type})`
SearchItemLine(item) ==
  <<"- ", item.title, ": ",
    IF TruthyStr(item, "snippet") THEN item.snippet ELSE "No snippet available",
    " (", item.type, ")">>

SearchResultsText(query, results) ==
  <<"Search results for \"", query, "\":\n\n">>
    \o JoinLines([i \in 1..Len(results) |-> SearchItemLine(results[i])], 1)

NoteCreatedText(note) ==
  <<"Note created successfully!\nTitle: ", note.title, "\nID: ", note.id>>

NoteUpdatedText(note) ==
  <<"Note updated successfully!\nTitle: ", note.title, "\nID: ", note.id>>

MustProvideText == <<"You must provide at least one field to update.">>

\* SearchLimit written as limit || 10
SearchLimitFalsy(args) == IF Has(args, "limit") /\ args.limit # 0 THEN args.limit ELSE 10

\* const { query, limit = 10 } = args
SearchLimit(args) == IF Has(args, "limit") THEN args.limit ELSE 10

\* NoUpdateFields that also asks for noteId to be missing
NoUpdateFieldsNorId(args) ==
  /\ ~TruthyStr(args, "noteId")
  /\ ~TruthyStr(args, "title")
  /\ ~TruthyStr(args, "markdown")
  /\ ~TruthyStr(args, "parentNoteId")
  /\ ~TruthyArr(args, "attributes")

\* !title && !markdown && !parentNoteId && !attributes
NoUpdateFields(args) ==
  /\ ~TruthyStr(args, "title")
  /\ ~TruthyStr(args, "markdown")
  /\ ~TruthyStr(args, "parentNoteId")
  /\ ~TruthyArr(args, "attributes")

\* the updates object built field by field
BuildUpdates(args) ==
  (IF TruthyStr(args, "title") THEN [title |-> args.title] ELSE <<>>)
    @@ (IF TruthyStr(args, "markdown") THEN [markdown |-> args.markdown] ELSE <<>>)
    @@ (IF TruthyStr(args, "parentNoteId") THEN [parentNoteId |-> args.parentNoteId] ELSE <<>>)
    @@ (IF TruthyArr(args, "attributes") THEN [attributes |-> args.attributes] ELSE <<>>)

\* the body of the try block up to its first await
CallToolStart(name, args) ==
  LET branch == DispatchBranch(name) IN
  CASE branch = 1 -> Await(searchNotesRequest(args.query, SearchLimit(args)))
    [] branch = 2 ->
         Await(createNoteRequest(
                 Restrict(args, {"title", "markdown", "parentNoteId", "templateId", "attributes"})))
    [] branch = 3 ->
         IF NoUpdateFields(args)
         THEN Settle(Return(TextResult(MustProvideText)))
         ELSE Await(updateNoteRequest(args.noteId, BuildUpdates(args)))
    [] branch = 4 -> Await(getAskInfoRequest)
    [] branch = 5 -> Await(getAskIndexRequest)
    [] branch = 6 -> Await(getAutomationAssistantRequest(args.assistantId))
    [] OTHER -> Settle(Throw(McpError("MethodNotFound", <<"Unknown tool: ", name>>)))

\* the rest of a case once the client method has returned value
CallToolFormat(branch, args, value) ==
  CASE branch = 1 -> TextResult(SearchResultsText(args.query, value))
    [] branch = 2 -> TextResult(NoteCreatedText(value))
    [] branch = 3 -> TextResult(NoteUpdatedText(value))
    [] branch = 4 -> TextResult(<<"Slite Ask Information:\n">> \o JSONStringify(value))
    [] branch = 5 -> TextResult(<<"Slite Ask Index Information:\n">> \o JSONStringify(value))
    [] OTHER -> TextResult(<<"Automation Assistant Information:\n">> \o JSONStringify(value))

\* the client method a case awaits, settled by reply
CallToolClient(branch, args, reply) ==
  CASE branch = 1 -> searchNotes(args.query, reply)
    [] branch = 2 -> createNote(reply)
    [] branch = 3 -> updateNote(args.noteId, reply)
    [] branch = 4 -> getAskInfo(reply)
    [] branch = 5 -> getAskIndex(reply)
    [] OTHER -> getAutomationAssistant(args.assistantId, reply)

\* the body of the try block from its await to its end
CallToolResume(name, args, reply) ==
  LET branch == DispatchBranch(name)
      got == CallToolClient(branch, args, reply)
  IN IF got.thrown THEN got ELSE Return(CallToolFormat(branch, args, got.value))

\* CallToolCatch without the isError key
CallToolCatchUnflagged(outcome) ==
  IF outcome.thrown
  THEN Return(TextResult(<<"Error: ">> \o outcome.error.message))
  ELSE outcome

\* catch (error) { ... return { content: [...], isError: true } }
CallToolCatch(outcome) ==
  IF outcome.thrown
  THEN Return(ErrorResult(<<"Error: ">> \o outcome.error.message))
  ELSE outcome

(***************************************************************************)
(* Protocol Adapter, stdio-server.ts: the four server.tool callbacks.      *)
(***************************************************************************)
\* the names given to server.tool, in source order
StdioTools == <<"search-notes", "create-note", "update-note", "get-ask-info">>

\* async ({ query, limit = 10 }) => ...
StdioSearchLimit(args) == IF Has(args, "limit") THEN args.limit ELSE 10

\* a callback up to its first await
StdioToolStart(name, args) ==
  CASE name = "search-notes" ->
         Await(searchNotesRequest(args.query, StdioSearchLimit(args)))
    [] name = "create-note" ->
         Await(createNoteRequest(
                 Restrict(args, {"title", "markdown", "parentNoteId", "attributes"})))
    [] name = "update-note" ->
         IF NoUpdateFields(args)
         THEN Settle(Return(TextResult(MustProvideText)))
         ELSE Await(updateNoteRequest(args.noteId, BuildUpdates(args)))
    [] OTHER -> Await(getAskInfoRequest)

\* a callback from its await to its end, its own catch block included
StdioToolResume(name, args, reply) ==
  CASE name = "search-notes" ->
         LET got == searchNotes(args.query, reply) IN
         IF got.thrown
         THEN Return(TextResult(<<"Failed to search: ">> \o got.error.message))
         ELSE Return(TextResult(SearchResultsText(args.query, got.value)))
    [] name = "create-note" ->
         LET got == createNote(reply) IN
         IF got.thrown
         THEN Return(TextResult(<<"Failed to create note: ">> \o got.error.message))
         ELSE Return(TextResult(NoteCreatedText(got.value)))
    [] name = "update-note" ->
         LET got == updateNote(args.noteId, reply) IN
         IF got.thrown
         THEN Return(TextResult(<<"Failed to update note: ">> \o got.error.message))
         ELSE Return(TextResult(NoteUpdatedText(got.value)))
    [] OTHER ->
         LET got == getAskInfo(reply) IN
         IF got.thrown
         THEN Return(TextResult(<<"Failed to get Ask info: ">> \o got.error.message))
         ELSE Return(TextResult(<<"Slite Ask Information:\n">> \o JSONStringify(got.value)))

(***************************************************************************)
(* What the host sends and what the remote service answers.                *)
(***************************************************************************)
Queries == {"roadmap", "budget"}

Limits == {0, 1, 10, 25}

Titles == {"", "T"}

Markdowns == {"", "M"}

ParentIds == {"", "p1"}

TemplateIds == {"", "t1"}

Tags == {"tag"}

AttributeArrays == UNION {[1..n -> Tags] : n \in 0..MaxAttrs}

NoteIds == {"n1"}

AssistantIds == {"a1"}

\* names outside the catalog
UnknownTools == {"delete-note", "list-notes"}

EmptyArgs == [k \in {} |-> ""]

SearchArgs ==
  {[query |-> q] : q \in Queries}
    \cup {[query |-> q, limit |-> l] : q \in Queries, l \in Limits}

CreateArgs ==
  {Restrict([title |-> t, markdown |-> "M", parentNoteId |-> p, templateId |-> tp,
             attributes |-> at], {"title", "markdown"} \cup given) :
     t \in Titles, p \in ParentIds, tp \in TemplateIds, at \in AttributeArrays,
     given \in SUBSET {"parentNoteId", "templateId", "attributes"}}

UpdateArgs ==
  {Restrict([noteId |-> id, title |-> t, markdown |-> m, parentNoteId |-> p,
             attributes |-> at], {"noteId"} \cup given) :
     id \in NoteIds, t \in Titles, m \in Markdowns, p \in ParentIds,
     at \in AttributeArrays,
     given \in SUBSET {"title", "markdown", "parentNoteId", "attributes"}}

\* the arguments a host sends with a tool name, as the tool's schema declares
ToolArgs(name) ==
  CASE name = "search-notes" -> SearchArgs
    [] name = "create-note" -> CreateArgs
    [] name = "update-note" -> UpdateArgs
    [] name = "get-automation-assistant" -> {[assistantId |-> a] : a \in AssistantIds}
    [] OTHER -> {EmptyArgs}

Range(seq) == {seq[i] : i \in 1..Len(seq)}

UriChars == {"/", "a"}

UriHeads == {UriPrefix, "slite://pages"}

\* resource URIs: a scheme://host token and up to MaxTail further characters
Uris ==
  {<<h>> \o t : h \in UriHeads, t \in UNION {[1..n -> UriChars] : n \in 0..MaxTail}}

\* notes as the remote service returns them
NoteData ==
  {[id |-> "n1", title |-> "Doc"],
   [id |-> "n1", title |-> "Doc", markdown |-> ""],
   [id |-> "n1", title |-> "Doc", markdown |-> "Hello"]}

SearchItems ==
  {[id |-> "n1", title |-> "Doc", type |-> "note"],
   [id |-> "n2", title |-> "Plan", snippet |-> "Q3 plan", type |-> "note"]}

\* bodies of a successful search: with results, with none, without the key
SearchData ==
  {[results |-> r] : r \in UNION {[1..n -> SearchItems] : n \in 0..1}}
    \cup {[total |-> 0]}

\* opaque informational payloads
InfoData == {[status |-> "ok"], [status |-> "ok", name |-> "helper"]}

AllData == NoteData \cup SearchData \cup InfoData

\* causes with which an axios request fails (error.message)
Causes == {"Network Error", "Request failed with status code 500"}

\* the response bodies the remote service can give to the request of req
DataFor(req) ==
  IF req.method = "none" THEN {}
  ELSE IF req.method = "resources/read" THEN NoteData
  ELSE CASE req.name = "search-notes" -> SearchData
         [] req.name \in {"create-note", "update-note"} -> NoteData
         [] OTHER -> InfoData

(***************************************************************************)
(* The server as a state machine.  A call occupies a slot from the moment  *)
(* the host's request is dispatched until its response is written.         *)
(***************************************************************************)
NoReq == [method |-> "none"]

NoResp == [kind |-> "none"]

IdleCall == [pc |-> "idle", req |-> NoReq, sent |-> <<>>, replies |-> <<>>, resp |-> NoResp]

\* the message written for a settled handler: a result, or a JSON-RPC error
\* carrying the code and message of the McpError thrown
Respond(outcome) ==
  IF outcome.thrown
  THEN [kind |-> "error", code |-> outcome.error.code, message |-> outcome.error.message]
  ELSE [kind |-> "result", result |-> outcome.value]

\* a handler that ran up to its first await or to its end
Started(req, st) ==
  IF st.await
  THEN [pc |-> "awaiting", req |-> req, sent |-> <<st.request>>, replies |-> <<>>,
        resp |-> NoResp]
  ELSE [pc |-> "done", req |-> req, sent |-> <<>>, replies |-> <<>>,
        resp |-> Respond(st.outcome)]

\* Resumed for a handler that keeps the request being served in a field of the
\* server, overwritten by every call that starts: it formats the reply with the
\* request of another call in flight when there is one
ResumedFromSharedRequest(c, reply) ==
  LET others == {t \in Slots : calls[t].pc = "awaiting" /\ calls[t].req # c.req}
      req == IF others = {} THEN c.req ELSE calls[CHOOSE t \in others : TRUE].req
  IN [c EXCEPT !.pc = "done",
               !.replies = Append(@, reply),
               !.resp = Respond(
                 IF req.method = "resources/read" THEN ReadResourceResume(req.uri, reply)
                 ELSE IF variant = "index"
                      THEN CallToolCatch(CallToolResume(req.name, req.args, reply))
                      ELSE StdioToolResume(req.name, req.args, reply))]

\* Resumed with one more attempt after a failed request
ResumedWithRetry(c, reply) ==
  IF ~reply.ok /\ Len(c.sent) < 2
  THEN [c EXCEPT !.sent = Append(@, c.sent[1]), !.replies = Append(@, reply)]
  ELSE [c EXCEPT !.pc = "done",
                 !.replies = Append(@, reply),
                 !.resp = Respond(
                   IF c.req.method = "resources/read"
                   THEN ReadResourceResume(c.req.uri, reply)
                   ELSE IF variant = "index"
                        THEN CallToolCatch(CallToolResume(c.req.name, c.req.args, reply))
                        ELSE StdioToolResume(c.req.name, c.req.args, reply))]

\* the handler of call c, resumed with the reply to its request
Resumed(c, reply) ==
  [c EXCEPT !.pc = "done",
            !.replies = Append(@, reply),
            !.resp = Respond(
              IF c.req.method = "resources/read" THEN ReadResourceResume(c.req.uri, reply)
              ELSE IF variant = "index"
                   THEN CallToolCatch(CallToolResume(c.req.name, c.req.args, reply))
                   ELSE StdioToolResume(c.req.name, c.req.args, reply))]

Init ==
  /\ variant \in {"index", "stdio"}
  /\ calls = [s \in Slots |-> IdleCall]

\* the host delivers one call at a time: it sends a request once every
\* response has been written
NoneInFlight == \A s \in Slots : calls[s].pc = "idle"

\* index.ts: tools/call
CallTool(s, name, args) ==
  /\ variant = "index"
  /\ calls[s].pc = "idle"
  /\ NoneInFlight
  /\ calls' = [calls EXCEPT ![s] =
       Started([method |-> "tools/call", name |-> name, args |-> args],
               LET st == CallToolStart(name, args) IN
               IF st.await THEN st ELSE Settle(CallToolCatch(st.outcome)))]
  /\ UNCHANGED variant

\* index.ts: resources/read
ReadResource(s, uri) ==
  /\ variant = "index"
  /\ calls[s].pc = "idle"
  /\ NoneInFlight
  /\ calls' = [calls EXCEPT ![s] =
       Started([method |-> "resources/read", uri |-> uri], ReadResourceStart(uri))]
  /\ UNCHANGED variant

\* stdio-server.ts: tools/call of a registered tool
StdioCallTool(s, name, args) ==
  /\ variant = "stdio"
  /\ calls[s].pc = "idle"
  /\ NoneInFlight
  /\ calls' = [calls EXCEPT ![s] =
       Started([method |-> "tools/call", name |-> name, args |-> args],
               StdioToolStart(name, args))]
  /\ UNCHANGED variant

\* the remote service answers the request of call s with a success status
RemoteSucceeds(s, data) ==
  /\ calls[s].pc = "awaiting"
  /\ data \in DataFor(calls[s].req)
  /\ calls' = [calls EXCEPT ![s] = Resumed(calls[s], HttpOk(data))]
  /\ UNCHANGED variant

\* the request of call s fails: transport error or non-success status
RemoteFails(s, cause) ==
  /\ calls[s].pc = "awaiting"
  /\ calls' = [calls EXCEPT ![s] = Resumed(calls[s], HttpFailed(cause))]
  /\ UNCHANGED variant

\* the response of call s is written to the transport; nothing of it is kept
Deliver(s) ==
  /\ calls[s].pc = "done"
  /\ calls' = [calls EXCEPT ![s] = IdleCall]
  /\ UNCHANGED variant

Next ==
  \/ \E s \in Slots, name \in Range(ListTools) \cup UnknownTools :
       \E args \in ToolArgs(name) : CallTool(s, name, args)
  \/ \E s \in Slots, uri \in Uris : ReadResource(s, uri)
  \/ \E s \in Slots, name \in Range(StdioTools) :
       \E args \in ToolArgs(name) : StdioCallTool(s, name, args)
  \/ \E s \in Slots, data \in AllData : RemoteSucceeds(s, data)
  \/ \E s \in Slots, cause \in Causes : RemoteFails(s, cause)
  \/ \E s \in Slots : Deliver(s)

Spec == Init /\ [][Next]_vars

(***************************************************************************)
(* A host that pipelines: it sends a request while earlier calls are still *)
(* awaiting their remote reply, so the handlers interleave at their        *)
(* awaits.  One request of each kind is sent.                              *)
(***************************************************************************)
PipelinedToolCalls ==
  {[name |-> "search-notes", args |-> [query |-> "roadmap"]],
   [name |-> "search-notes", args |-> [query |-> "budget", limit |-> 1]],
   [name |-> "update-note", args |-> [noteId |-> "n1", title |-> "T"]],
   [name |-> "update-note", args |-> [noteId |-> "n1"]],
   [name |-> "get-ask-info", args |-> EmptyArgs],
   [name |-> "delete-note", args |-> EmptyArgs]}

\* those of them that name a tool stdio-server.ts registers
PipelinedStdioCalls == {call \in PipelinedToolCalls : call.name \in Range(StdioTools)}

PipelinedUris ==
  {<<UriPrefix>>, <<UriPrefix, "/", "a">>, <<UriPrefix, "/", "a", "/", "a">>}

\* index.ts: tools/call, whatever the other calls are doing
PipelinedCallTool(s, name, args) ==
  /\ variant = "index"
  /\ calls[s].pc = "idle"
  /\ calls' = [calls EXCEPT ![s] =
       Started([method |-> "tools/call", name |-> name, args |-> args],
               LET st == CallToolStart(name, args) IN
               IF st.await THEN st ELSE Settle(CallToolCatch(st.outcome)))]
  /\ UNCHANGED variant

\* index.ts: resources/read, whatever the other calls are doing
PipelinedReadResource(s, uri) ==
  /\ variant = "index"
  /\ calls[s].pc = "idle"
  /\ calls' = [calls EXCEPT ![s] =
       Started([method |-> "resources/read", uri |-> uri], ReadResourceStart(uri))]
  /\ UNCHANGED variant

\* stdio-server.ts: tools/call of a registered tool, whatever the other calls
\* are doing
PipelinedStdioCallTool(s, name, args) ==
  /\ variant = "stdio"
  /\ calls[s].pc = "idle"
  /\ calls' = [calls EXCEPT ![s] =
       Started([method |-> "tools/call", name |-> name, args |-> args],
               StdioToolStart(name, args))]
  /\ UNCHANGED variant

NextPipelined ==
  \/ \E s \in Slots, call \in PipelinedToolCalls : PipelinedCallTool(s, call.name, call.args)
  \/ \E s \in Slots, uri \in PipelinedUris : PipelinedReadResource(s, uri)
  \/ \E s \in Slots, call \in PipelinedStdioCalls :
       PipelinedStdioCallTool(s, call.name, call.args)
  \/ \E s \in Slots, data \in AllData : RemoteSucceeds(s, data)
  \/ \E s \in Slots, cause \in Causes : RemoteFails(s, cause)
  \/ \E s \in Slots : Deliver(s)

SpecPipelined == Init /\ [][NextPipelined]_vars

(***************************************************************************)
(* Vocabulary of the properties.                                           *)
(***************************************************************************)
Catalog ==
  {"search-notes", "create-note", "update-note",
   "get-ask-info", "get-ask-index", "get-automation-assistant"}

IsToolCall(c) == c.pc # "idle" /\ c.req.method = "tools/call"

IsRead(c) == c.pc # "idle" /\ c.req.method = "resources/read"

\* the call is answered and its remote request failed
RemoteFailed(c) == c.pc = "done" /\ c.replies # <<>> /\ ~c.replies[Len(c.replies)].ok

\* the call is answered and its remote request succeeded
RemoteSucceeded(c) == c.pc = "done" /\ c.replies # <<>> /\ c.replies[Len(c.replies)].ok

Contains(text, fragment) == \E i \in 1..Len(text) : text[i] = fragment

ErrorFlag(result) == Has(result, "isError") /\ result.isError

\* the text the host is shown for an answered call
ShownText(resp) ==
  IF resp.kind = "error" THEN resp.message
  ELSE IF Has(resp.result, "contents") THEN resp.result.contents[1].text
  ELSE resp.result.content[1].text

(***************************************************************************)
(* C1. A tools/call whose name is outside the six-tool catalog fails with  *)
(* a method-not-found protocol error, not an ordinary tool result, and     *)
(* issues no remote request.                                               *)
(***************************************************************************)
C1_UnknownToolMethodNotFound ==
  \A s \in Slots :
    (variant = "index" /\ IsToolCall(calls[s]) /\ calls[s].pc = "done"
       /\ calls[s].req.name \notin Catalog)
      => /\ calls[s].resp.kind = "error"
         /\ calls[s].resp.code = "MethodNotFound"
         /\ calls[s].sent = <<>>

(***************************************************************************)
(* C2. In index.ts, when the remote request of a catalog tool fails, the   *)
(* call is answered with a result (not a protocol error) whose error flag  *)
(* is true and whose single text block begins with "Error: ", continues    *)
(* with the Remote Client's "Failed to ..." message and embeds the cause;  *)
(* for search-notes the text contains the query.                           *)
(***************************************************************************)
C2_RemoteFailureIsErrorResult ==
  \A s \in Slots :
    (variant = "index" /\ IsToolCall(calls[s]) /\ RemoteFailed(calls[s])
       /\ calls[s].req.name \in Catalog)
      => /\ calls[s].resp.kind = "result"
         /\ ErrorFlag(calls[s].resp.result)
         /\ Len(calls[s].resp.result.content) = 1
         /\ calls[s].resp.result.content[1].type = "text"
         /\ LET text == calls[s].resp.result.content[1].text IN
            /\ text[1] = "Error: "
            /\ text[2] \in {"Failed to search for \"", "Failed to create note: ",
                            "Failed to update note ", "Failed to fetch Ask info: ",
                            "Failed to fetch Ask index: ",
                            "Failed to fetch automation assistant "}
            /\ text[Len(text)] = calls[s].replies[1].cause
            /\ calls[s].req.name = "search-notes"
                 => Contains(text, calls[s].req.args.query)

C2_Witness ==
  \E s \in Slots :
    /\ variant = "index" /\ IsToolCall(calls[s]) /\ RemoteFailed(calls[s])
    /\ calls[s].req.name = "search-notes"
    /\ calls[s].req.args.query = "budget"
    /\ calls[s].replies[1].cause = "Request failed with status code 500"

(***************************************************************************)
(* C3. As claimed: no entry point answers a failed remote request with a   *)
(* protocol error; the host always receives a result carrying text.        *)
(***************************************************************************)
C3_RemoteFailureNeverProtocolFault ==
  \A s \in Slots : RemoteFailed(calls[s]) => calls[s].resp.kind = "result"

(***************************************************************************)
(* C3, amended.  A failed remote request of a tools/call is answered with  *)
(* a result, never a protocol error; a failed getNote of a resources/read  *)
(* of slite://notes/{id} is answered with an InternalError protocol error  *)
(* whose message is "Failed to fetch note information: " followed by the   *)
(* Remote Client's message for that id and the cause.                      *)
(***************************************************************************)
C3_FailureAbsorbedByToolsOnly ==
  \A s \in Slots :
    RemoteFailed(calls[s])
      => IF IsToolCall(calls[s])
         THEN calls[s].resp.kind = "result"
         ELSE /\ calls[s].resp.kind = "error"
              /\ calls[s].resp.code = "InternalError"
              /\ calls[s].resp.message =
                   <<"Failed to fetch note information: ", "Failed to fetch note ">>
                     \o SubSeq(calls[s].req.uri, 3, Len(calls[s].req.uri))
                     \o <<": ", calls[s].replies[1].cause>>

C3_Witness ==
  \E s \in Slots :
    /\ IsRead(calls[s]) /\ RemoteFailed(calls[s])
    /\ calls[s].req.uri = <<"slite://notes", "/", "a", "a">>

(***************************************************************************)
(* C4. An update-note call that supplies noteId and none of title,         *)
(* markdown, parentNoteId, attributes is answered with the single text     *)
(* block "You must provide at least one field to update.", without error   *)
(* flag, and issues no remote request; in both adapter variants.           *)
(***************************************************************************)
C4_UpdateWithoutFieldsRejected ==
  \A s \in Slots :
    (IsToolCall(calls[s]) /\ calls[s].req.name = "update-note"
       /\ DOMAIN calls[s].req.args = {"noteId"})
      => /\ calls[s].pc = "done"
         /\ calls[s].sent = <<>>
         /\ calls[s].resp.kind = "result"
         /\ ~ErrorFlag(calls[s].resp.result)
         /\ calls[s].resp.result.content =
              <<[type |-> "text",
                 text |-> <<"You must provide at least one field to update.">>]>>

C4_Witness ==
  \E s \in Slots :
    /\ variant = "stdio" /\ IsToolCall(calls[s]) /\ calls[s].pc = "done"
    /\ calls[s].req.name = "update-note"
    /\ DOMAIN calls[s].req.args = {"noteId"}

(***************************************************************************)
(* C5. As claimed: the payload of the POST /notes of a create-note call    *)
(* holds title, markdown and exactly the optional fields the caller gave,  *)
(* each with the given value.                                              *)
(***************************************************************************)
C5_PayloadIsGivenFields ==
  \A s \in Slots :
    (variant = "index" /\ IsToolCall(calls[s]) /\ calls[s].req.name = "create-note")
      => /\ Len(calls[s].sent) = 1
         /\ calls[s].sent[1].method = "POST"
         /\ calls[s].sent[1].url = <<"/notes">>
         /\ DOMAIN calls[s].sent[1].data = DOMAIN calls[s].req.args
         /\ \A k \in DOMAIN calls[s].req.args :
              calls[s].sent[1].data[k] = calls[s].req.args[k]

(***************************************************************************)
(* C5, amended.  In index.ts the payload of the POST /notes of a           *)
(* create-note call (title and markdown supplied) holds title, markdown    *)
(* and exactly the optional fields given with a non-empty value (a         *)
(* non-empty string parentNoteId or templateId, a non-empty attributes     *)
(* array), each with the given value; an optional field that is absent or  *)
(* empty has no key.  With no optional field it is exactly {title,         *)
(* markdown}.                                                              *)
(***************************************************************************)
C5_PayloadIsNonEmptyGivenFields ==
  \A s \in Slots :
    (variant = "index" /\ IsToolCall(calls[s]) /\ calls[s].req.name = "create-note")
      => LET args == calls[s].req.args
             kept == {"title", "markdown"}
                       \cup {k \in DOMAIN args \cap {"parentNoteId", "templateId"} :
                               args[k] # ""}
                       \cup {k \in DOMAIN args \cap {"attributes"} : args[k] # <<>>}
         IN /\ Len(calls[s].sent) = 1
            /\ calls[s].sent[1].method = "POST"
            /\ calls[s].sent[1].url = <<"/notes">>
            /\ DOMAIN calls[s].sent[1].data = kept
            /\ \A k \in kept : calls[s].sent[1].data[k] = args[k]

C5_Witness ==
  \E s \in Slots :
    /\ variant = "index" /\ IsToolCall(calls[s]) /\ calls[s].req.name = "create-note"
    /\ DOMAIN calls[s].req.args = {"title", "markdown", "parentNoteId", "attributes"}
    /\ calls[s].req.args.parentNoteId = ""
    /\ calls[s].req.args.attributes = <<"tag">>
    /\ calls[s].sent # <<>>

(***************************************************************************)
(* C6. A resources/read of slite://notes/{id} whose getNote succeeds       *)
(* returns one content whose text is exactly the note's body text when the *)
(* note has (non-empty) body text and the JSON serialization of the whole  *)
(* note otherwise, with the note's title alongside.                        *)
(***************************************************************************)
C6_ReadReturnsBodyOrJson ==
  \A s \in Slots :
    (IsRead(calls[s]) /\ RemoteSucceeded(calls[s]))
      => LET note == calls[s].replies[1].data
             hasBody == "markdown" \in DOMAIN note /\ note.markdown # ""
         IN /\ calls[s].resp.kind = "result"
            /\ Len(calls[s].resp.result.contents) = 1
            /\ calls[s].resp.result.contents[1].title = note.title
            /\ calls[s].resp.result.contents[1].uri = calls[s].req.uri
            /\ calls[s].resp.result.contents[1].text =
                 IF hasBody THEN <<note.markdown>> ELSE JSONStringify(note)

C6_Witness ==
  \E s \in Slots :
    /\ IsRead(calls[s]) /\ RemoteSucceeded(calls[s])
    /\ calls[s].replies[1].data = [id |-> "n1", title |-> "Doc", markdown |-> "Hello"]
    /\ ShownText(calls[s].resp) = <<"Hello">>

(***************************************************************************)
(* C7. A resources/read whose URI is neither slite://notes nor             *)
(* slite://notes/{id} with a single non-empty path segment as id fails     *)
(* with an InvalidRequest protocol error and issues no remote request.     *)
(***************************************************************************)
WellFormedUri(uri) ==
  /\ uri[1] = "slite://notes"
  /\ \/ Len(uri) = 1
     \/ /\ uri[2] = "/"
        /\ Cardinality({i \in 2..Len(uri) : uri[i] = "/"}) = 1
        /\ Len(uri) > 2

C7_MalformedUriInvalidRequest ==
  \A s \in Slots :
    (IsRead(calls[s]) /\ ~WellFormedUri(calls[s].req.uri))
      => /\ calls[s].pc = "done"
         /\ calls[s].resp.kind = "error"
         /\ calls[s].resp.code = "InvalidRequest"
         /\ calls[s].sent = <<>>

C7_Witness ==
  \E s \in Slots :
    /\ IsRead(calls[s]) /\ calls[s].pc = "done"
    /\ calls[s].req.uri = <<"slite://notes", "/", "a", "/", "a">>

(***************************************************************************)
(* C8. The names tools/list advertises are the names tools/call            *)
(* dispatches: every advertised name has exactly one case of the switch,   *)
(* every case is for an advertised name, and a call falls to the default   *)
(* branch exactly when its name is not advertised.                         *)
(***************************************************************************)
C8_ListedIsDispatched ==
  /\ \A name \in Range(ListTools) :
       Cardinality({i \in 1..Len(SwitchCases) : SwitchCases[i] = name}) = 1
  /\ \A i \in 1..Len(SwitchCases) : SwitchCases[i] \in Range(ListTools)
  /\ \A s \in Slots :
       (variant = "index" /\ IsToolCall(calls[s]) /\ calls[s].pc = "done")
         => (calls[s].req.name \notin Range(ListTools)
               <=> ShownText(calls[s].resp)
                     = <<"Error: ", "Unknown tool: ", calls[s].req.name>>)

C8_Witness ==
  \E s \in Slots :
    /\ variant = "index" /\ IsToolCall(calls[s]) /\ calls[s].pc = "done"
    /\ calls[s].req.name = "get-ask-index"
    /\ calls[s].replies # <<>>

(***************************************************************************)
(* C9. A search-notes call without limit issues its remote search with     *)
(* limit 10, and one with a limit issues it with exactly that limit; in    *)
(* both adapter variants.                                                  *)
(***************************************************************************)
C9_SearchLimitDefaultsToTen ==
  \A s \in Slots :
    (IsToolCall(calls[s]) /\ calls[s].req.name = "search-notes")
      => /\ Len(calls[s].sent) = 1
         /\ calls[s].sent[1].url = <<"/search-notes">>
         /\ calls[s].sent[1].params.q = calls[s].req.args.query
         /\ calls[s].sent[1].params.limit =
              IF "limit" \in DOMAIN calls[s].req.args
              THEN calls[s].req.args.limit ELSE 10

C9_Witness ==
  \E s \in Slots :
    /\ variant = "stdio" /\ IsToolCall(calls[s]) /\ calls[s].req.name = "search-notes"
    /\ DOMAIN calls[s].req.args = {"query"}
    /\ calls[s].sent # <<>>

(***************************************************************************)
(* C10. A call issues at most one remote request, and exactly one when it  *)
(* reaches a Remote Client operation; a failed request is not issued       *)
(* again: its reply ends the call, and the response of that call carries   *)
(* the cause of the failure.                                               *)
(***************************************************************************)
C10_OneRequestNoRetry ==
  \A s \in Slots :
    /\ Len(calls[s].sent) <= 1
    /\ Len(calls[s].replies) <= Len(calls[s].sent)
    /\ calls[s].pc = "awaiting" => (Len(calls[s].sent) = 1 /\ calls[s].replies = <<>>)
    /\ calls[s].replies # <<>> => calls[s].pc = "done"
    /\ RemoteFailed(calls[s])
         => Contains(ShownText(calls[s].resp), calls[s].replies[1].cause)

C10_Witness ==
  \E s \in Slots :
    /\ RemoteFailed(calls[s])
    /\ IsToolCall(calls[s])
    /\ calls[s].req.name = "update-note"
    /\ Len(calls[s].sent) = 1

(***************************************************************************)
(* C11. When several calls are in flight and their awaits interleave in    *)
(* any order, the response of each call is the one its own request (name,  *)
(* arguments or URI) and the reply to its own remote request determine,    *)
(* the request it issued is the one its own arguments determine, and a     *)
(* call whose response is written leaves nothing behind in the server.     *)
(***************************************************************************)
\* the outcome of the handler of request req run on its own, replies being the
\* replies to its remote request
OwnOutcome(req, replies) ==
  IF req.method = "resources/read"
  THEN IF replies = <<>> THEN ReadResourceStart(req.uri).outcome
       ELSE ReadResourceResume(req.uri, replies[1])
  ELSE IF variant = "index"
       THEN CallToolCatch(IF replies = <<>> THEN CallToolStart(req.name, req.args).outcome
                          ELSE CallToolResume(req.name, req.args, replies[1]))
       ELSE IF replies = <<>> THEN StdioToolStart(req.name, req.args).outcome
            ELSE StdioToolResume(req.name, req.args, replies[1])

\* the remote requests the handler of request req issues on its own
OwnRequests(req) ==
  LET st == IF req.method = "resources/read" THEN ReadResourceStart(req.uri)
            ELSE IF variant = "index" THEN CallToolStart(req.name, req.args)
            ELSE StdioToolStart(req.name, req.args)
  IN IF st.await THEN <<st.request>> ELSE <<>>

C11_CallsAreIndependent ==
  /\ \A s \in Slots :
       /\ calls[s].pc = "idle" => calls[s] = IdleCall
       /\ calls[s].pc # "idle" => calls[s].sent = OwnRequests(calls[s].req)
       /\ calls[s].pc = "done"
            => LET own == OwnOutcome(calls[s].req, calls[s].replies) IN
               /\ calls[s].resp.kind = (IF own.thrown THEN "error" ELSE "result")
               /\ own.thrown => /\ calls[s].resp.code = own.error.code
                                /\ calls[s].resp.message = own.error.message
               /\ ~own.thrown => calls[s].resp.result = own.value
  /\ \A s \in Slots, t \in Slots :
       (calls[s].pc = "done" /\ calls[t].pc = "done"
          /\ calls[s].req = calls[t].req /\ calls[s].replies = calls[t].replies)
         => calls[s].resp = calls[t].resp

\* two different calls in flight together, both answered, one failed and one
\* succeeded
C11_Witness ==
  \E s \in Slots, t \in Slots :
    /\ IsToolCall(calls[s]) /\ calls[s].req.name = "search-notes"
    /\ RemoteFailed(calls[s])
    /\ IsToolCall(calls[t]) /\ calls[t].req.name = "update-note"
    /\ RemoteSucceeded(calls[t])

UpdateFields == {"title", "markdown", "parentNoteId", "attributes"}

(***************************************************************************)
(* C12. An update-note call that supplies noteId and at least one of       *)
(* title, markdown, parentNoteId, attributes issues exactly one            *)
(* PUT /notes/{noteId} whose body is the record of exactly the supplied    *)
(* fields with their supplied values.                                      *)
(***************************************************************************)
C12_PutCarriesSuppliedFields ==
  \A s \in Slots :
    (IsToolCall(calls[s]) /\ calls[s].req.name = "update-note"
       /\ DOMAIN calls[s].req.args \cap UpdateFields # {})
      => /\ Len(calls[s].sent) = 1
         /\ calls[s].sent[1].method = "PUT"
         /\ calls[s].sent[1].url = <<"/notes/", calls[s].req.args.noteId>>
         /\ DOMAIN calls[s].sent[1].data = DOMAIN calls[s].req.args \cap UpdateFields
         /\ \A k \in DOMAIN calls[s].req.args \cap UpdateFields :
              calls[s].sent[1].data[k] = calls[s].req.args[k]

\* what index.ts issues and answers for a tools/call
IndexBehaviour(name, args, replies) ==
  LET st == CallToolStart(name, args) IN
  [sent |-> IF st.await THEN <<st.request>> ELSE <<>>,
   resp |-> Respond(CallToolCatch(IF replies = <<>> THEN st.outcome
                                  ELSE CallToolResume(name, args, replies[1])))]

\* what stdio-server.ts issues and answers for a tools/call of a tool it
\* registers
StdioBehaviour(name, args, replies) ==
  LET st == StdioToolStart(name, args) IN
  [sent |-> IF st.await THEN <<st.request>> ELSE <<>>,
   resp |-> Respond(IF replies = <<>> THEN st.outcome
                    ELSE StdioToolResume(name, args, replies[1]))]

(***************************************************************************)
(* C13. The two adapter variants are equivalent: they register the same    *)
(* set of tools, and for the same tool call with the same arguments and    *)
(* the same remote outcome they issue the same remote request and return   *)
(* the same response, error flag included.                                 *)
(***************************************************************************)
C13_VariantsEquivalent ==
  /\ \A s \in Slots :
       (IsToolCall(calls[s])
          /\ calls[s].req.name \in Range(ListTools) \cup Range(StdioTools))
         => calls[s].req.name \in Range(ListTools) \cap Range(StdioTools)
  /\ \A s \in Slots :
       (IsToolCall(calls[s]) /\ calls[s].pc = "done"
          /\ calls[s].req.name \in Range(ListTools) \cap Range(StdioTools))
         => LET other == IF variant = "index"
                         THEN StdioBehaviour(calls[s].req.name, calls[s].req.args,
                                             calls[s].replies)
                         ELSE IndexBehaviour(calls[s].req.name, calls[s].req.args,
                                             calls[s].replies)
            IN /\ calls[s].sent = other.sent
               /\ calls[s].resp = other.resp

====
